---- MODULE Spec2Model ----
(***************************************************************************)
(* Model of the media-kit batch converters:                                *)
(*   src/unnamed/part_001 lines 1-336    the space-aware runner            *)
(*   src/unnamed/part_001 lines 337-582  the validation-aware runner       *)
(*   src/convert.js                      the basic runner                  *)
(*                                                                         *)
(* Three specifications share the variables:                               *)
(*   Spec          main() of the space-aware runner driving                *)
(*                 convertFlvToMp4 over a collected batch                  *)
(*   SpecCollect   collectFiles over bounded directory trees               *)
(*   SpecValidate  validateMp4ByFfprobe (both variants) over bounded       *)
(*                 ffprobe documents                                       *)
(***************************************************************************)
EXTENDS Integers, Sequences, FiniteSets, TLC

VARIABLES
    \* ---- the environment main() runs in
    platform,       \* process.platform
    targetExists,   \* fs.existsSync(TARGET_DIR)
    outputDirExists,\* fs.existsSync(OUTPUT_DIR)
    tree,           \* the entries of TARGET_DIR, in readdir order
    outputs,        \* OUTPUT_DIR: stem -> the file <stem>.mp4, or NoFile
    ledgerExists,   \* fs.existsSync(MANUAL_REVIEW_FILE)
    ledger,         \* the entries of MANUAL_REVIEW_FILE
    log,            \* the entries of LOG_FILE
    MAX_BATCH_SIZE_BYTES, \* the batch limit the run is configured with
    variant,        \* the runner that is run: "space" | "va" | "basic"
    beside,         \* the .mp4 files next to the sources (basic runner)
    earlier,        \* what the earlier runs on this file system did
    \* ---- main()
    mainPc,         \* where main() stands
    availableSpace, \* const availableSpace
    filesToConvert, \* const filesToConvert
    idx,            \* the for-of position in filesToConvert
    \* ---- convertFlvToMp4 of the task at idx
    workerPc,       \* where the worker stands
    events,         \* events the child process has emitted, not yet handled
    resolved,       \* resolve() of the awaited promise was called
    alive,          \* the transcoder processes alive
    originalTimes,  \* task position -> originalMtime, originalAtime
    \* ---- history, read by the properties only
    invoked,        \* the tasks convertFlvToMp4 was called with, in order
    spawned,        \* the sources a transcoder was launched for, in order
    probed,         \* the number of ffprobe invocations
    outcomes,       \* task position -> the outcome branches that ran
    ffinfoOf,       \* task position -> what runFfprobeJson returned
    initial,        \* the file system main() was started on
    \* ---- validateMp4ByFfprobe under test (SpecValidate)
    vPc,            \* "idle" | "input" | "space" | "va"
    vInfo,          \* the ffinfo argument
    vOrigin,        \* the originSize argument
    vResult         \* what the call produced

envvars == <<platform, targetExists, outputDirExists, tree, outputs,
             ledgerExists, ledger, log, MAX_BATCH_SIZE_BYTES, variant, beside,
             earlier>>
mainvars == <<mainPc, availableSpace, filesToConvert, idx>>
workervars == <<workerPc, events, resolved, alive, originalTimes>>
histvars == <<invoked, spawned, probed, outcomes, ffinfoOf, initial>>
vvars == <<vPc, vInfo, vOrigin, vResult>>

vars == <<envvars, mainvars, workervars, histvars, vvars>>

\* the values of a sequence or function
Range(f) == { f[x] : x \in DOMAIN f }

(***************************************************************************)
(* JavaScript values.  Every value is a record tagged by t, so that values *)
(* of different JavaScript types can be compared.  An object is a record   *)
(* whose fields other than t are its own properties; a property that is    *)
(* not in the record's domain reads as undefined.                          *)
(***************************************************************************)
Undefined == [t |-> "undefined"]
Null == [t |-> "null"]
NaN == [t |-> "NaN"]
Num(n) == [t |-> "number", v |-> n]
Str(s) == [t |-> "string", v |-> s]
Arr(items) == [t |-> "array", items |-> items]

\* o.p
Get(o, p) == IF p \in DOMAIN o THEN o[p] ELSE Undefined

\* typeof v === 'number' (NaN is a number)
IsNumber(v) == v.t \in {"number", "NaN"}

\* typeof v === 'string'
IsString(v) == v.t = "string"

\* ToBoolean(v): what !v, v || d and v && d test
Truthy(v) ==
    CASE v.t \in {"undefined", "null", "NaN"} -> FALSE
      [] v.t = "number" -> v.v # 0
      [] v.t = "string" -> v.v # ""
      [] OTHER -> TRUE

\* v || d
OrElse(v, d) == IF Truthy(v) THEN v ELSE d

\* The string literals ffprobe documents of the model carry, with the value
\* String.prototype.includes, parseInt(s, 10) and parseFloat(s) give on each.
\* Sizes are byte counts: 1 MiB, 3 MiB and 5 MiB.
ContainerNames == {"mov,mp4,m4a,3gp,3g2,mj2", "flv"}

\* s.includes(needle)
Includes(s, needle) ==
    CASE s.v = "mov,mp4,m4a,3gp,3g2,mj2" -> needle \in {"mp4", "mov", "m4a"}
      [] s.v = "avc1" -> needle = "avc1"
      [] s.v = "mp4a" -> needle \in {"mp4a", "mp4"}
      [] OTHER -> FALSE

\* The number a numeric string literal of the model denotes
StringToNumber(s) ==
    CASE s = "0" -> Num(0)
      [] s = "1" -> Num(1)
      [] s = "2" -> Num(2)
      [] s = "300.000000" -> Num(300)
      [] s = "0.000000" -> Num(0)
      [] s = "1048576" -> Num(1048576)
      [] s = "3145728" -> Num(3145728)
      [] s = "5242880" -> Num(5242880)
      [] OTHER -> NaN

\* parseInt(v, 10): a number argument is first converted to its string
parseInt(v) ==
    CASE v.t = "number" -> v
      [] v.t = "string" -> StringToNumber(v.v)
      [] OTHER -> NaN

\* parseFloat(v)
parseFloat(v) ==
    CASE v.t = "number" -> v
      [] v.t = "string" -> StringToNumber(v.v)
      [] OTHER -> NaN

\* a > b and a >= b on JavaScript numbers: false when either is NaN
JsGt(a, b) == a.t = "number" /\ b.t = "number" /\ a.v > b.v
JsGe(a, b) == a.t = "number" /\ b.t = "number" /\ a.v >= b.v

\* Number.isNaN(a)
IsNaN(a) == a.t = "NaN"

\* Math.abs(x, ...): only the first argument is read
MathAbs(x, ignored) ==
    IF x.t = "number" THEN Num(IF x.v < 0 THEN 0 - x.v ELSE x.v) ELSE NaN

(***************************************************************************)
(* Configuration, part_001 lines 8-20                                      *)
(***************************************************************************)
MAX_DIFF_SIZE_BYTES == 2 * 1024 * 1024

(***************************************************************************)
(* validateMp4ByFfprobe.  The result is the returned object, or Thrown     *)
(* when the call raises a TypeError.                                       *)
(***************************************************************************)
Thrown == [t |-> "throw"]

\* streams.some(s => s.codec_type === type && s.codec_name === codec &&
\*   typeof s.codec_tag_string === 'string' && s.codec_tag_string.includes(tag))
SomeStream(streams, type, codec, tag) ==
    \E i \in 1..Len(streams.items) :
        LET s == streams.items[i] IN
        /\ Get(s, "codec_type") = Str(type)
        /\ Get(s, "codec_name") = Str(codec)
        /\ IsString(Get(s, "codec_tag_string"))
        /\ Includes(Get(s, "codec_tag_string"), tag)

\* typeof fmt.nb_streams === 'number' ? fmt.nb_streams
\*                                    : parseInt(fmt.nb_streams || '0', 10)
NbStreams(fmt) ==
    IF IsNumber(Get(fmt, "nb_streams"))
    THEN Get(fmt, "nb_streams")
    ELSE parseInt(OrElse(Get(fmt, "nb_streams"), Str("0")))

\* The reasons array: one push per failed check, in source order
Reasons(checks) ==
    LET Step(i) == IF checks[i][1] THEN <<>> ELSE <<checks[i][2]>>
        R[i \in 0..Len(checks)] == IF i = 0 THEN <<>> ELSE R[i - 1] \o Step(i)
    IN  R[Len(checks)]

\* The guard of the first line of both variants
MissingFormatOrStreams(ffinfo) ==
    \/ ~Truthy(ffinfo)
    \/ ~Truthy(Get(ffinfo, "format"))
    \/ ~Truthy(Get(ffinfo, "streams"))

\* part_001 lines 157-190 (space-aware)
validateMp4ByFfprobe(ffinfo, originSize) ==
    IF MissingFormatOrStreams(ffinfo)
    THEN [t |-> "object", ok |-> FALSE, reason |-> "missing format or streams"]
    ELSE
    LET fmt == Get(ffinfo, "format")
        streams == Get(ffinfo, "streams")
    IN  IF ~IsString(Get(fmt, "format_name"))
        THEN Thrown   \* fmt.format_name.includes on a non-string
        ELSE
        LET a_ok == Includes(Get(fmt, "format_name"), "mp4")
            video_ok == SomeStream(streams, "video", "h264", "avc1")
            audio_ok == SomeStream(streams, "audio", "aac", "mp4a")
            nb_streams == NbStreams(fmt)
            d_ok == JsGe(nb_streams, Num(2))
            duration == parseFloat(OrElse(Get(fmt, "duration"), Num(0)))
            e_ok == JsGt(duration, Num(0))
            size == parseFloat(OrElse(Get(fmt, "size"), Num(0)))
            f_ok == JsGt(MathAbs(size, originSize), Num(MAX_DIFF_SIZE_BYTES))
        IN  [t |-> "object",
             ok |-> a_ok /\ video_ok /\ audio_ok /\ d_ok /\ e_ok /\ f_ok,
             reasons |-> Reasons(<<
                 <<a_ok, "container_not_mp4">>,
                 <<video_ok, "video_stream_not_h264_avc1">>,
                 <<audio_ok, "audio_stream_not_aac_mp4a">>,
                 <<d_ok, "nb_streams_lt_2">>,
                 <<e_ok, "duration_invalid">>,
                 <<f_ok, "size_invalid">> >>),
             details |-> [a_ok |-> a_ok, video_ok |-> video_ok,
                          audio_ok |-> audio_ok, nb_streams |-> nb_streams,
                          duration |-> duration, size |-> size]]

\* part_001 lines 420-449 (validation-aware)
validateMp4ByFfprobeVA(ffinfo) ==
    IF MissingFormatOrStreams(ffinfo)
    THEN [t |-> "object", ok |-> FALSE, reason |-> "missing_format_or_streams"]
    ELSE
    LET fmt == Get(ffinfo, "format")
        streams == Get(ffinfo, "streams")
        a_ok == /\ IsString(Get(fmt, "format_name"))
                /\ Includes(Get(fmt, "format_name"), "mp4")
        video_ok == SomeStream(streams, "video", "h264", "avc1")
        audio_ok == SomeStream(streams, "audio", "aac", "mp4a")
        nb_streams == NbStreams(fmt)
        d_ok == ~IsNaN(nb_streams) /\ JsGe(nb_streams, Num(2))
        duration == parseFloat(OrElse(Get(fmt, "duration"), Num(0)))
        e_ok == ~IsNaN(duration) /\ JsGt(duration, Num(0))
    IN  [t |-> "object",
         ok |-> a_ok /\ video_ok /\ audio_ok /\ d_ok /\ e_ok,
         reasons |-> Reasons(<<
             <<a_ok, "container_not_mp4">>,
             <<video_ok, "video_stream_not_h264_avc1">>,
             <<audio_ok, "audio_stream_not_aac_mp4a">>,
             <<d_ok, "nb_streams_lt_2">>,
             <<e_ok, "duration_invalid">> >>),
         details |-> [a_ok |-> a_ok, video_ok |-> video_ok,
                      audio_ok |-> audio_ok, nb_streams |-> nb_streams,
                      duration |-> duration]]

(***************************************************************************)
(* ffprobe documents: what JSON.parse(stdout) can give for                 *)
(* -show_format -show_streams.  Every property is optional.                *)
(***************************************************************************)
\* A record of the chosen properties: f maps property names to value sets,
\* the empty set standing for an absent property.
Optional(S) == {{}} \cup {{x} : x \in S}

StreamObjects ==
    { [t |-> "object", codec_type |-> Str(ty), codec_name |-> Str(cn),
       codec_tag_string |-> Str(tag)] :
        <<ty, cn, tag>> \in { <<"video", "h264", "avc1">>,
                              <<"audio", "aac", "mp4a">>,
                              <<"video", "h264", "mp4a">>,
                              <<"audio", "aac", "avc1">>,
                              <<"video", "hevc", "hev1">> } }
    \cup { [t |-> "object", codec_type |-> Str("video"),
            codec_name |-> Str("h264")] }

MaxStreams == 2

StreamLists ==
    UNION { [1..n -> StreamObjects] : n \in 0..MaxStreams }

\* An object with the properties chosen in fields, a sequence of
\* <<name, optional value>> pairs
Obj(fields) ==
    LET Prop(i) == IF fields[i][2] = {} THEN <<>>
                   ELSE fields[i][1] :> (CHOOSE x \in fields[i][2] : TRUE)
        O[i \in 0..Len(fields)] ==
            IF i = 0 THEN ("t" :> "object") ELSE O[i - 1] @@ Prop(i)
    IN  O[Len(fields)]

FormatObjects ==
    { Obj(<< <<"format_name", fn>>, <<"nb_streams", nb>>,
             <<"duration", du>>, <<"size", sz>> >>) :
        fn \in Optional({Str(c) : c \in ContainerNames}),
        nb \in Optional({Num(1), Num(2), Str("2"), Str("N/A")}),
        du \in Optional({Str("300.000000"), Str("0.000000"), Str("N/A")}),
        sz \in Optional({Str("1048576"), Str("3145728")}) }

\* null (runFfprobeJson failed) or a parsed document
ProbeDocuments ==
    {Null} \cup
    { Obj(<< <<"format", fo>>, <<"streams", st>> >>) :
        fo \in Optional(FormatObjects),
        st \in Optional({Arr(l) : l \in StreamLists}) }

\* originSize: stat.size of the source, in bytes
OriginSizes == {1048576, 3145728, 5242880}


(***************************************************************************)
(* The directory tree under TARGET_DIR.  A directory is the sequence of    *)
(* its entries in readdir order.  An entry is a file                       *)
(*   [kind, name, size, mtime, atime]                                      *)
(* or a directory [kind, name, entries]; a name is the pair path.extname   *)
(* splits it into, [stem, ext].  A full path is [dir, stem, ext], dir      *)
(* being the names of the directories from TARGET_DIR down.                *)
(***************************************************************************)
extensionsToConvert == {".ts", ".flv"}

\* ext.toLowerCase() on the extensions of the model
ToLowerCase(ext) ==
    CASE ext = ".FLV" -> ".flv"
      [] ext = ".TS" -> ".ts"
      [] OTHER -> ext

File(stem, ext, size, mtime) ==
    [kind |-> "file", name |-> [stem |-> stem, ext |-> ext],
     size |-> size, mtime |-> mtime, atime |-> mtime + 10]

Dir(stem, entries) ==
    [kind |-> "dir", name |-> [stem |-> stem, ext |-> ""], entries |-> entries]

\* path.join(currentDir, file)
FullPath(dirPath, name) ==
    [dir |-> dirPath, stem |-> name.stem, ext |-> name.ext]

\* part_001 lines 99-100: the extension filter
IsCandidateAnyCase(file) == file.name.ext \in extensionsToConvert
IsCandidateAll(file) == TRUE
IsCandidate(file) == ToLowerCase(file.name.ext) \in extensionsToConvert

\* part_001 line 103: the batch limit
OverflowsAfter(totalSize, size) == totalSize > MAX_BATCH_SIZE_BYTES
Overflows(totalSize, size) == totalSize + size > MAX_BATCH_SIZE_BYTES

\* part_001 lines 106-111: the task pushed for a candidate
Task(dirPath, file) ==
    [fullPath |-> FullPath(dirPath, file.name), size |-> file.size,
     mtime |-> file.mtime, atime |-> file.atime]

\* part_001 lines 89-114: walk(currentDir) from entry i on.  acc carries the
\* closure's fileList and totalSize; stop is walk's return value.
\* part_001 line 96: if (walk(fullPath)) return true
PropagatesNever(sub) == FALSE
Propagates(sub) == sub.stop

RECURSIVE walk(_, _, _, _)
walk(entries, i, dirPath, acc) ==
    IF i > Len(entries)
    THEN [acc EXCEPT !.stop = FALSE]
    ELSE
    LET e == entries[i] IN
    IF e.kind = "dir"
    THEN LET sub == walk(e.entries, 1, Append(dirPath, e.name.stem), acc)
         IN  IF Propagates(sub) THEN sub ELSE walk(entries, i + 1, dirPath, sub)
    ELSE IF ~IsCandidate(e)
    THEN walk(entries, i + 1, dirPath, acc)
    ELSE IF Overflows(acc.totalSize, e.size)
    THEN [acc EXCEPT !.stop = TRUE]
    ELSE walk(entries, i + 1, dirPath,
              [fileList |-> Append(acc.fileList, Task(dirPath, e)),
               totalSize |-> acc.totalSize + e.size,
               stop |-> FALSE])

\* part_001 line 122: fileList.sort((a, b) => a.mtime - b.mtime), a stable
\* sort; here by insertion
InsertByMtime(sorted, x) ==
    LET k == Cardinality({j \in 1..Len(sorted) : sorted[j].mtime <= x.mtime})
    IN  SubSeq(sorted, 1, k) \o <<x>> \o SubSeq(sorted, k + 1, Len(sorted))

SortUnsorted(list) == list
SortByMtime(list) ==
    LET S[i \in 0..Len(list)] ==
            IF i = 0 THEN <<>> ELSE InsertByMtime(S[i - 1], list[i])
    IN  S[Len(list)]

\* part_001 lines 85-125: collectFiles(dir), the returned array and the
\* total it logs
collectFiles(entries) ==
    LET w == walk(entries, 1, <<>>,
                  [fileList |-> <<>>, totalSize |-> 0, stop |-> FALSE])
    IN  [fileList |-> SortByMtime(w.fileList), totalSize |-> w.totalSize]

(***************************************************************************)
(* Bounded directory trees.  The entry at position i of a directory is     *)
(* named after its position, so names are unique within a directory and    *)
(* files of different directories can share a basename.                    *)
(***************************************************************************)
MaxSize == 2
MaxTime == 2
MaxBatch == 3

FileStems == <<"a", "b">>
DirStems == <<"d1", "d2">>

\* the attributes of a file: matching files of every size and time, and
\* one file for each other spelling of the extension
ProtoFiles ==
    { [ext |-> ".ts", size |-> s, mtime |-> m] :
        s \in 1..MaxSize, m \in 1..MaxTime }
    \cup { [ext |-> e, size |-> 1, mtime |-> 1] : e \in {".FLV", ".mp4", ""} }

TsProtoFiles == { p \in ProtoFiles : p.ext = ".ts" }

UpToTwo(S) == UNION { [1..n -> S] : n \in 0..2 }

\* a directory of files; a directory whose first entry is a directory
ProtoDirs ==
    { [entries |-> l] : l \in UpToTwo(ProtoFiles) }
    \cup { [entries |-> <<[entries |-> <<f>>]>> \o rest] :
            f \in TsProtoFiles, rest \in {<<>>} \cup {<<g>> : g \in TsProtoFiles} }

RECURSIVE Named(_)
Named(protos) ==
    [ i \in 1..Len(protos) |->
        IF "entries" \in DOMAIN protos[i]
        THEN Dir(DirStems[i], Named(protos[i].entries))
        ELSE File(FileStems[i], protos[i].ext, protos[i].size, protos[i].mtime) ]

Trees == { Named(l) : l \in UpToTwo(ProtoFiles \cup ProtoDirs) }
(***************************************************************************)
(* The file system main() works on                                         *)
(***************************************************************************)
NoFile == [t |-> "none"]

\* the stem of path.basename(inputPath, path.extname(inputPath)) + '.mp4',
\* which names the output in OUTPUT_DIR (part_001 lines 200-201)
OutputStem(inputPath) == inputPath.stem

\* what ffmpeg writes: the source it was made from, whether it is a whole
\* file, its timestamps, and whether validation has accepted it
Now == 50
OutputFile(from, complete) ==
    [t |-> "file", from |-> from, complete |-> complete, validated |-> FALSE,
     mtime |-> Now, atime |-> Now]

\* a file that was in OUTPUT_DIR before the run
LeftoverPath == [dir |-> <<"elsewhere">>, stem |-> "old", ext |-> ".flv"]
Leftover == [OutputFile(LeftoverPath, TRUE) EXCEPT !.mtime = 0, !.atime = 0]

\* fs.existsSync(outputPath)
existsSyncNever(stem) == FALSE
existsSync(stem) == outputs[stem] # NoFile

\* the tree without the file at path: fs.unlinkSync(inputPath)
RECURSIVE Unlink(_, _, _)
Unlink(entries, dirPath, path) ==
    LET Keep(e) == ~(e.kind = "file" /\ FullPath(dirPath, e.name) = path)
        kept == SelectSeq(entries, Keep)
    IN  [ i \in 1..Len(kept) |->
            IF kept[i].kind = "dir"
            THEN [kept[i] EXCEPT !.entries =
                    Unlink(kept[i].entries, Append(dirPath, kept[i].name.stem), path)]
            ELSE kept[i] ]

SourcePresent(path) == Unlink(tree, <<>>, path) # tree

\* fs.unlinkSync(outputPath): the directory without the file at the key
RemoveOutputNoop(files, key) == files
RemoveOutput(files, key) == [files EXCEPT ![key] = NoFile]

\* fs.utimesSync(path, atime, mtime)
utimesSwapped(file, atime, mtime) == [file EXCEPT !.atime = mtime, !.mtime = atime]
utimesSync(file, atime, mtime) == [file EXCEPT !.atime = atime, !.mtime = mtime]

\* part_001 lines 29-36: writeLog appends one entry
writeLog(entries, message, level) ==
    Append(entries, [level |-> level, msg |-> message])

(***************************************************************************)
(* getAvailableDiskSpace, part_001 lines 43-78.  Space is counted in MiB.  *)
(* A spawnSync result is an error, or the stdout of fsutil, of which the   *)
(* model keeps what /([\d,]+)/ matches first: nothing, or the digits of a  *)
(* number.                                                                 *)
(***************************************************************************)
SPACE_THRESHOLD == 5 * 1024

FreeSpaces == {0, SPACE_THRESHOLD - 1, SPACE_THRESHOLD}

SpawnSyncResults ==
    {[error |-> TRUE], [error |-> FALSE, match |-> FALSE]}
    \cup { [error |-> FALSE, match |-> TRUE, digits |-> n] : n \in FreeSpaces }

\* the value returned with the entries logged, or Thrown
getAvailableDiskSpace(plat, result) ==
    IF plat # "win32"
    THEN Thrown
    ELSE IF result.error
    THEN [t |-> "return", value |-> Num(0),
          logged |-> <<[level |-> "ERROR", msg |-> "disk space query failed"]>>]
    ELSE IF result.match
    THEN [t |-> "return", value |-> Num(result.digits), logged |-> <<>>]
    ELSE [t |-> "return", value |-> Num(0), logged |-> <<>>]

\* availableSpace < SPACE_THRESHOLD
BelowThresholdInverted(space) == space.t = "number" /\ space.v > SPACE_THRESHOLD
BelowThreshold(space) == space.t = "number" /\ space.v < SPACE_THRESHOLD

(***************************************************************************)
(* main(), part_001 lines 295-334                                          *)
(***************************************************************************)
isDel == TRUE

LogHeader == <<[level |-> "HEADER", msg |-> "log initialised"]>>

\* line 306: !fs.existsSync(TARGET_DIR)
TargetMissingUnchecked == FALSE
TargetMissing == ~targetExists

\* lines 303-321: from the log header to the disk-space gate
MainStart ==
    /\ mainPc = "start"
    /\ IF TargetMissing
       THEN /\ log' = writeLog(LogHeader, "target directory missing", "CRITICAL")
            /\ mainPc' = "returned"
            /\ UNCHANGED <<outputDirExists, ledgerExists, ledger, availableSpace>>
       ELSE /\ outputDirExists' = TRUE
            /\ ledgerExists' = FALSE
            /\ ledger' = <<>>
            /\ \E result \in SpawnSyncResults :
                 LET space == getAvailableDiskSpace(platform, result) IN
                 IF space = Thrown
                 THEN /\ mainPc' = "rejected"
                      /\ log' = LogHeader
                      /\ UNCHANGED availableSpace
                 ELSE /\ availableSpace' = space.value
                      /\ IF BelowThreshold(space.value)
                         THEN /\ log' = writeLog(LogHeader \o space.logged,
                                                 "disk space below threshold",
                                                 "CRITICAL")
                              /\ mainPc' = "returned"
                         ELSE /\ log' = LogHeader \o space.logged
                              /\ mainPc' = "collect"
    /\ UNCHANGED <<platform, targetExists, tree, outputs, MAX_BATCH_SIZE_BYTES, variant, beside, earlier,
                   filesToConvert, idx, workervars, histvars, vvars>>

\* line 324: collectFiles(TARGET_DIR), with the entry it logs
MainCollect ==
    /\ mainPc = "collect"
    /\ LET c == collectFiles(tree) IN
       /\ filesToConvert' = c.fileList
       /\ workerPc' = [i \in 1..Len(c.fileList) |-> "new"]
       /\ events' = [i \in 1..Len(c.fileList) |-> <<>>]
       /\ resolved' = [i \in 1..Len(c.fileList) |-> FALSE]
       /\ outcomes' = [i \in 1..Len(c.fileList) |-> {}]
       /\ ffinfoOf' = [i \in 1..Len(c.fileList) |-> Undefined]
       /\ originalTimes' = [i \in 1..Len(c.fileList) |-> Undefined]
    /\ log' = writeLog(log, "batch collected", "INFO")
    /\ idx' = 1
    /\ mainPc' = "loop"
    /\ UNCHANGED <<platform, targetExists, outputDirExists, tree, outputs,
                   ledgerExists, ledger, MAX_BATCH_SIZE_BYTES, variant, beside, earlier, availableSpace,
                   alive, invoked, spawned, probed, initial, vvars>>

(***************************************************************************)
(* convertFlvToMp4, part_001 lines 199-287.  The worker of the task at     *)
(* position i is "new" before the call, "awaiting" while its promise is    *)
(* pending with the listeners registered, "probing" while its close        *)
(* handler is suspended in await runFfprobeJson, "finished" when its last  *)
(* handler has returned, and "threw" when its close handler raised: the    *)
(* handler is async, so the error rejects the handler's own promise, no    *)
(* one handles that rejection, and resolve() is never reached.             *)
(***************************************************************************)
\* the documents ffprobe gives in a run: failure, a document without
\* streams, a document whose format has no format_name, and complete
\* documents that pass, have one stream only, or are small
GoodStreams ==
    Arr(<< [t |-> "object", codec_type |-> Str("video"),
            codec_name |-> Str("h264"), codec_tag_string |-> Str("avc1")],
           [t |-> "object", codec_type |-> Str("audio"),
            codec_name |-> Str("aac"), codec_tag_string |-> Str("mp4a")] >>)

RunnerFormat(nb, size) ==
    [t |-> "object", format_name |-> Str("mov,mp4,m4a,3gp,3g2,mj2"),
     nb_streams |-> Num(nb), duration |-> Str("300.000000"), size |-> Str(size)]

RunnerProbeDocuments ==
    { Null,
      [t |-> "object", format |-> RunnerFormat(2, "3145728")],
      [t |-> "object", streams |-> GoodStreams,
       format |-> [t |-> "object", nb_streams |-> Num(2),
                   duration |-> Str("300.000000"), size |-> Str("3145728")]],
      [t |-> "object", streams |-> GoodStreams, format |-> RunnerFormat(2, "3145728")],
      [t |-> "object", streams |-> GoodStreams, format |-> RunnerFormat(1, "3145728")],
      [t |-> "object", streams |-> GoodStreams, format |-> RunnerFormat(2, "1048576")] }

\* the exit codes of the transcoder: success and failure
ExitCodes == {0, 1}
\* the code 'close' carries after a failed spawn: the negative errno
SpawnErrno == -2

\* line 328: what `await convertFlvToMp4(fileInfo)` waits for.  The promise
\* continuation is a microtask: it runs after the events the child emitted
\* in the same tick have been handled.
AwaitedNot(i) == TRUE
Awaited(i) == resolved[i] /\ events[i] = <<>>

\* lines 199-223: the call, up to the skip return or the spawn
WorkerStart ==
    /\ mainPc = "loop"
    /\ idx <= Len(filesToConvert)
    /\ LET task == filesToConvert[idx]
           stem == OutputStem(task.fullPath)
       IN
       /\ invoked' = Append(invoked, task.fullPath)
       /\ IF existsSync(stem)
          THEN \* lines 203-215
               /\ \E unlinked \in BOOLEAN :
                    /\ unlinked => SourcePresent(task.fullPath)
                    /\ IF ~isDel
                       THEN /\ log' = writeLog(log, "skip: output exists", "WARNING")
                            /\ tree' = tree
                       ELSE IF unlinked
                       THEN /\ tree' = Unlink(tree, <<>>, task.fullPath)
                            /\ log' = writeLog(writeLog(log, "skip: output exists", "WARNING"),
                                               "source deleted", "INFO")
                       ELSE /\ tree' = tree
                            /\ log' = writeLog(writeLog(log, "skip: output exists", "WARNING"),
                                               "source not deleted", "WARNING")
               /\ workerPc' = [workerPc EXCEPT ![idx] = "finished"]
               /\ resolved' = [resolved EXCEPT ![idx] = TRUE]
               /\ outcomes' = [outcomes EXCEPT ![idx] = @ \cup {"skip"}]
               /\ mainPc' = "await"
               /\ UNCHANGED <<events, alive, spawned>>
          ELSE \* lines 217-223
               /\ log' = writeLog(log, "conversion started", "INFO")
               /\ workerPc' = [workerPc EXCEPT ![idx] = "awaiting"]
               /\ mainPc' = "await"
               /\ \E started \in BOOLEAN :
                    IF started
                    THEN /\ alive' = alive \cup {idx}
                         /\ spawned' = Append(spawned, task.fullPath)
                         /\ UNCHANGED events
                    ELSE \* a failed spawn emits 'error', then 'close'
                         /\ events' = [events EXCEPT ![idx] =
                                <<[ev |-> "error"], [ev |-> "close", code |-> SpawnErrno]>>]
                         /\ UNCHANGED <<alive, spawned>>
               /\ UNCHANGED <<tree, resolved, outcomes>>
    /\ UNCHANGED <<platform, targetExists, outputDirExists, outputs, ledgerExists,
                   ledger, MAX_BATCH_SIZE_BYTES, variant, beside, earlier, availableSpace, filesToConvert,
                   idx, originalTimes, probed, ffinfoOf, initial, vvars>>

\* the transcoder runs and exits: it leaves a whole file on code 0, part of
\* a file or nothing otherwise, and 'close' is emitted
ChildExit(i) ==
    /\ i \in alive
    /\ alive' = alive \ {i}
    /\ \E code \in ExitCodes, wrote \in BOOLEAN :
         LET task == filesToConvert[i]
             stem == OutputStem(task.fullPath)
         IN
         /\ code = 0 => wrote
         /\ events' = [events EXCEPT ![i] = Append(@, [ev |-> "close", code |-> code])]
         /\ outputs' = IF wrote
                       THEN [outputs EXCEPT ![stem] = OutputFile(task.fullPath, code = 0)]
                       ELSE outputs
    /\ UNCHANGED <<platform, targetExists, outputDirExists, tree, ledgerExists,
                   ledger, log, MAX_BATCH_SIZE_BYTES, variant, beside, earlier, mainvars, workerPc, resolved,
                   originalTimes, histvars, vvars>>

\* lines 281-285: ffmpeg.on('error')
OnError(i) ==
    /\ events[i] # <<>>
    /\ Head(events[i]).ev = "error"
    /\ events' = [events EXCEPT ![i] = Tail(@)]
    /\ log' = writeLog(log, "ffmpeg process error", "CRITICAL")
    /\ resolved' = [resolved EXCEPT ![i] = TRUE]
    /\ outcomes' = [outcomes EXCEPT ![i] = @ \cup {"spawn_failure"}]
    /\ UNCHANGED <<platform, targetExists, outputDirExists, tree, outputs,
                   ledgerExists, ledger, MAX_BATCH_SIZE_BYTES, variant, beside, earlier, mainvars, workerPc,
                   alive, originalTimes, invoked, spawned, probed, ffinfoOf, initial,
                   vvars>>

\* lines 225-229 and 266-278: ffmpeg.on('close'), up to the await of the
\* probe (code 0) or to its end (any other code)
OnClose(i) ==
    /\ events[i] # <<>>
    /\ Head(events[i]).ev = "close"
    /\ events' = [events EXCEPT ![i] = Tail(@)]
    /\ LET code == Head(events[i]).code
           task == filesToConvert[i]
           stem == OutputStem(task.fullPath)
       IN
       IF code = 0
       THEN /\ log' = writeLog(log, "ffmpeg finished", "INFO")
            /\ workerPc' = [workerPc EXCEPT ![i] = "probing"]
            /\ probed' = probed + 1
            /\ UNCHANGED <<outputs, resolved, outcomes>>
       ELSE /\ \E unlinked \in BOOLEAN :
                 IF ~existsSync(stem)
                 THEN /\ outputs' = outputs
                      /\ log' = writeLog(log, "conversion failed", "ERROR")
                 ELSE IF unlinked
                 THEN /\ outputs' = RemoveOutput(outputs, stem)
                      /\ log' = writeLog(writeLog(log, "conversion failed", "ERROR"),
                                         "broken output deleted", "INFO")
                 ELSE /\ outputs' = outputs
                      /\ log' = writeLog(writeLog(log, "conversion failed", "ERROR"),
                                         "broken output not deleted", "WARNING")
            /\ workerPc' = [workerPc EXCEPT ![i] = "finished"]
            /\ resolved' = [resolved EXCEPT ![i] = TRUE]
            /\ outcomes' = [outcomes EXCEPT ![i] = @ \cup {"nonzero_exit"}]
            /\ UNCHANGED probed
    /\ UNCHANGED <<platform, targetExists, outputDirExists, tree, ledgerExists,
                   ledger, MAX_BATCH_SIZE_BYTES, variant, beside, earlier, mainvars, alive, originalTimes,
                   invoked, spawned, ffinfoOf, initial, vvars>>

\* the ledger entry of lines 262-263
LedgerEntry(inputPath, reasons) == [path |-> inputPath, reasons |-> reasons]

\* validation.reasons.join(', ') of line 262 can be evaluated
CanJoinReasons(validation) == "reasons" \in DOMAIN validation

\* lines 236-241: fs.utimesSync stands in a try statement whose catch
\* clause logs the error, so an error of the call does not leave the handler
UtimesErrorUncaught(ok) == ~ok
UtimesErrorEscapes(ok) == FALSE

\* lines 229-265 and 277-278: the close handler from the return of
\* runFfprobeJson (lines 133-143) to its end
ProbeDone(i) ==
    /\ workerPc[i] = "probing"
    /\ \E doc \in RunnerProbeDocuments, utimesOk \in BOOLEAN, unlinked \in BOOLEAN :
         LET task == filesToConvert[i]
             stem == OutputStem(task.fullPath)
             log1 == IF doc = Null
                     THEN writeLog(log, "ffprobe failed", "ERROR")
                     ELSE log
             validation == validateMp4ByFfprobe(doc, task.size)
         IN
         /\ ffinfoOf' = [ffinfoOf EXCEPT ![i] = doc]
         /\ unlinked => (IF validation # Thrown /\ validation.ok
                         THEN SourcePresent(task.fullPath)
                         ELSE existsSync(stem))
         /\ utimesOk => existsSync(stem)
         /\ IF validation = Thrown
            THEN \* line 230 raised
                 /\ workerPc' = [workerPc EXCEPT ![i] = "threw"]
                 /\ log' = log1
                 /\ UNCHANGED <<tree, outputs, ledgerExists, ledger, resolved, outcomes>>
            ELSE IF validation.ok /\ UtimesErrorEscapes(utimesOk)
            THEN \* line 237 raised and nothing caught it
                 /\ workerPc' = [workerPc EXCEPT ![i] = "threw"]
                 /\ log' = writeLog(log1, "validation passed", "INFO")
                 /\ UNCHANGED <<tree, outputs, ledgerExists, ledger, resolved, outcomes>>
            ELSE IF validation.ok
            THEN \* lines 232-251
                 LET log2 == writeLog(log1, "validation passed", "INFO")
                     log3 == IF utimesOk
                             THEN writeLog(log2, "timestamps copied", "INFO")
                             ELSE writeLog(log2, "timestamps not copied", "WARNING")
                 IN
                 /\ outputs' =
                      IF existsSync(stem)
                      THEN [outputs EXCEPT ![stem] =
                              [(IF utimesOk
                                THEN utimesSync(@, task.atime, task.mtime)
                                ELSE @) EXCEPT !.validated = TRUE]]
                      ELSE outputs
                 /\ IF ~isDel
                    THEN tree' = tree /\ log' = log3
                    ELSE IF unlinked
                    THEN /\ tree' = Unlink(tree, <<>>, task.fullPath)
                         /\ log' = writeLog(log3, "source deleted", "INFO")
                    ELSE /\ tree' = tree
                         /\ log' = writeLog(log3, "source not deleted", "WARNING")
                 /\ workerPc' = [workerPc EXCEPT ![i] = "finished"]
                 /\ resolved' = [resolved EXCEPT ![i] = TRUE]
                 /\ outcomes' = [outcomes EXCEPT ![i] = @ \cup {"validation_pass"}]
                 /\ UNCHANGED <<ledgerExists, ledger>>
            ELSE \* lines 252-265
                 LET log2 == IF ~existsSync(stem) THEN log1
                             ELSE IF unlinked
                             THEN writeLog(log1, "rejected output deleted", "WARNING")
                             ELSE writeLog(log1, "rejected output not deleted", "WARNING")
                 IN
                 /\ outputs' = IF existsSync(stem) /\ unlinked
                               THEN RemoveOutput(outputs, stem)
                               ELSE outputs
                 /\ outcomes' = [outcomes EXCEPT ![i] = @ \cup {"validation_fail"}]
                 /\ tree' = tree
                 /\ IF CanJoinReasons(validation)
                    THEN /\ ledger' = Append(ledger,
                                        LedgerEntry(task.fullPath, validation.reasons))
                         /\ ledgerExists' = TRUE
                         /\ log' = writeLog(log2, "recorded for manual review", "WARNING")
                         /\ workerPc' = [workerPc EXCEPT ![i] = "finished"]
                         /\ resolved' = [resolved EXCEPT ![i] = TRUE]
                    ELSE \* line 262 raised: undefined has no join
                         /\ log' = log2
                         /\ workerPc' = [workerPc EXCEPT ![i] = "threw"]
                         /\ UNCHANGED <<ledgerExists, ledger, resolved>>
    /\ UNCHANGED <<platform, targetExists, outputDirExists, MAX_BATCH_SIZE_BYTES, variant, beside, earlier,
                   mainvars, events, alive, originalTimes, invoked, spawned, probed,
                   initial, vvars>>

\* lines 326-329: the awaited promise is resolved, the loop goes on
MainResume ==
    /\ mainPc = "await"
    /\ Awaited(idx)
    /\ mainPc' = "loop"
    /\ idx' = idx + 1
    /\ UNCHANGED <<envvars, availableSpace, filesToConvert, workervars, histvars, vvars>>

\* line 332: the text of the summary entry, which ends in
\* filesToConvert.length
SummaryText(count) == "run complete, files attempted: " \o ToString(count)

\* lines 331-333: the summary entry
MainSummary ==
    /\ mainPc = "loop"
    /\ idx > Len(filesToConvert)
    /\ log' = writeLog(log, SummaryText(Len(filesToConvert)), "INFO")
    /\ mainPc' = "done"
    /\ UNCHANGED <<platform, targetExists, outputDirExists, tree, outputs,
                   ledgerExists, ledger, MAX_BATCH_SIZE_BYTES, variant, beside, earlier, availableSpace,
                   filesToConvert, idx, workervars, histvars, vvars>>

(***************************************************************************)
(* Spec: one run of main() of the space-aware runner                       *)
(***************************************************************************)
AllStems == { FileStems[i] : i \in 1..Len(FileStems) }

\* the places of the .mp4 files the basic runner writes: next to a source,
\* in TARGET_DIR or in one of its directories
BesidePaths ==
    { [dir |-> d, stem |-> s] :
        d \in {<<>>} \cup { <<DirStems[i]>> : i \in 1..Len(DirStems) },
        s \in AllStems }

NothingBeside == [p \in BesidePaths |-> NoFile]

\* the trees of a run: up to two entries out of two matching files, a file
\* that does not match and a directory that holds a matching file
RunnerProtos ==
    { [ext |-> ".ts", size |-> 1, mtime |-> 2],
      [ext |-> ".FLV", size |-> 1, mtime |-> 1],
      [ext |-> ".mp4", size |-> 1, mtime |-> 1],
      [entries |-> <<[ext |-> ".ts", size |-> 1, mtime |-> 1]>>] }

RunnerTrees == { Named(l) : l \in UpToTwo(RunnerProtos) }

StaleLog == <<[level |-> "INFO", msg |-> "entry of an earlier run"]>>
StaleLedger == <<LedgerEntry(LeftoverPath, <<"nb_streams_lt_2">>)>>

\* the values the variables of validateMp4ByFfprobe under test keep in the
\* other specifications
ValidateIdle ==
    /\ vPc = "idle"
    /\ vInfo = Null
    /\ vOrigin = 0
    /\ vResult = Undefined

\* main() and the workers before the first step
RunnerIdle ==
    /\ availableSpace = Undefined
    /\ filesToConvert = <<>>
    /\ idx = 1
    /\ workerPc = <<>>
    /\ events = <<>>
    /\ resolved = <<>>
    /\ alive = {}
    /\ originalTimes = <<>>
    /\ invoked = <<>>
    /\ spawned = <<>>
    /\ probed = 0
    /\ outcomes = <<>>
    /\ ffinfoOf = <<>>
    /\ initial = [tree |-> tree, outputs |-> outputs, ledger |-> ledger,
                  ledgerExists |-> ledgerExists,
                  outputDirExists |-> outputDirExists]
    /\ earlier = <<>>

Init ==
    /\ platform \in {"win32", "linux"}
    /\ targetExists \in BOOLEAN
    /\ tree \in (IF targetExists THEN RunnerTrees ELSE {<<>>})
    /\ outputDirExists \in BOOLEAN
    /\ outputs \in (IF outputDirExists
                    THEN [AllStems -> {NoFile, Leftover}]
                    ELSE {[s \in AllStems |-> NoFile]})
    /\ ledgerExists \in BOOLEAN
    /\ ledger = IF ledgerExists THEN StaleLedger ELSE <<>>
    /\ log = StaleLog
    /\ MAX_BATCH_SIZE_BYTES \in {1, MaxBatch}
    /\ variant = "space"
    /\ beside = NothingBeside
    /\ mainPc = "start"
    /\ RunnerIdle
    /\ ValidateIdle

Next ==
    \/ MainStart
    \/ MainCollect
    \/ WorkerStart
    \/ \E i \in 1..Len(filesToConvert) : ChildExit(i)
    \/ \E i \in 1..Len(filesToConvert) : OnError(i)
    \/ \E i \in 1..Len(filesToConvert) : OnClose(i)
    \/ \E i \in 1..Len(filesToConvert) : ProbeDone(i)
    \/ MainResume
    \/ MainSummary

Spec == Init /\ [][Next]_vars

(***************************************************************************)
(* SpecCollect: collectFiles at line 324 of main(), over every tree and    *)
(* every batch limit of the bounds                                         *)
(***************************************************************************)
InitCollect ==
    /\ platform = "win32"
    /\ targetExists = TRUE
    /\ outputDirExists = TRUE
    /\ tree \in Trees
    /\ outputs = [s \in AllStems |-> NoFile]
    /\ ledgerExists = FALSE
    /\ ledger = <<>>
    /\ log = LogHeader
    /\ MAX_BATCH_SIZE_BYTES \in 0..MaxBatch
    /\ variant = "space"
    /\ beside = NothingBeside
    /\ mainPc = "collect"
    /\ RunnerIdle
    /\ ValidateIdle

NextCollect == MainCollect

SpecCollect == InitCollect /\ [][NextCollect]_vars

(***************************************************************************)
(* SpecValidate: the two validators applied to every document              *)
(***************************************************************************)
InitValidate ==
    /\ vPc = "input"
    /\ vInfo \in ProbeDocuments
    /\ vOrigin \in OriginSizes
    /\ vResult = Undefined
    /\ platform = "win32"
    /\ targetExists = TRUE
    /\ outputDirExists = TRUE
    /\ tree = <<>>
    /\ outputs = [s \in AllStems |-> NoFile]
    /\ ledgerExists = FALSE
    /\ ledger = <<>>
    /\ log = StaleLog
    /\ MAX_BATCH_SIZE_BYTES = MaxBatch
    /\ variant = "space"
    /\ beside = NothingBeside
    /\ mainPc = "start"
    /\ RunnerIdle

\* validateMp4ByFfprobe(ffinfo, originSize) of the space-aware runner
ValidateSpace ==
    /\ vPc = "input"
    /\ vPc' = "space"
    /\ vResult' = validateMp4ByFfprobe(vInfo, vOrigin)
    /\ UNCHANGED <<vInfo, vOrigin, envvars, mainvars, workervars, histvars>>

\* validateMp4ByFfprobe(ffinfo) of the validation-aware runner
ValidateVA ==
    /\ vPc = "input"
    /\ vPc' = "va"
    /\ vResult' = validateMp4ByFfprobeVA(vInfo)
    /\ UNCHANGED <<vInfo, vOrigin, envvars, mainvars, workervars, histvars>>

NextValidate == ValidateSpace \/ ValidateVA

SpecValidate == InitValidate /\ [][NextValidate]_vars

(***************************************************************************)
(* The validation-aware runner, part_001 lines 337-582                     *)
(***************************************************************************)
\* lines 376-389: collectFiles(dir), the paths of the matching files in
\* traversal order
RECURSIVE collectFilesVA(_, _)
collectFilesVA(entries, dirPath) ==
    IF entries = <<>>
    THEN <<>>
    ELSE LET e == Head(entries)
             found == IF e.kind = "dir"
                      THEN collectFilesVA(e.entries, Append(dirPath, e.name.stem))
                      ELSE IF IsCandidate(e)
                      THEN <<[fullPath |-> FullPath(dirPath, e.name)]>>
                      ELSE <<>>
         IN  found \o collectFilesVA(Tail(entries), dirPath)

\* fs.statSync(inputPath) of lines 469-471: the times of the file at path
RECURSIVE statSync(_, _, _)
statSync(entries, dirPath, path) ==
    IF entries = <<>>
    THEN Undefined
    ELSE LET e == Head(entries)
             here == IF e.kind = "dir"
                     THEN statSync(e.entries, Append(dirPath, e.name.stem), path)
                     ELSE IF FullPath(dirPath, e.name) = path
                     THEN [t |-> "object", mtime |-> e.mtime, atime |-> e.atime]
                     ELSE Undefined
         IN  IF here # Undefined THEN here
             ELSE statSync(Tail(entries), dirPath, path)

\* the worker state a call starts from, for a batch of n tasks
NewWorkers(n) ==
    /\ workerPc' = [i \in 1..n |-> "new"]
    /\ events' = [i \in 1..n |-> <<>>]
    /\ resolved' = [i \in 1..n |-> FALSE]
    /\ outcomes' = [i \in 1..n |-> {}]
    /\ ffinfoOf' = [i \in 1..n |-> Undefined]
    /\ originalTimes' = [i \in 1..n |-> Undefined]

\* lines 559-568: the log header, the target check, the output directory
MainStartVA ==
    /\ mainPc = "start"
    /\ IF TargetMissing
       THEN /\ log' = writeLog(LogHeader, "target directory missing", "CRITICAL")
            /\ mainPc' = "returned"
            /\ UNCHANGED outputDirExists
       ELSE /\ outputDirExists' = TRUE
            /\ log' = LogHeader
            /\ mainPc' = "collect"
    /\ UNCHANGED <<platform, targetExists, tree, outputs, ledgerExists, ledger,
                   MAX_BATCH_SIZE_BYTES, variant, beside, earlier, availableSpace,
                   filesToConvert, idx, workervars, histvars, vvars>>

\* line 570: collectFiles(TARGET_DIR)
MainCollectVA ==
    /\ mainPc = "collect"
    /\ filesToConvert' = collectFilesVA(tree, <<>>)
    /\ NewWorkers(Len(filesToConvert'))
    /\ idx' = 1
    /\ mainPc' = "loop"
    /\ UNCHANGED <<envvars, availableSpace, alive, invoked, spawned, probed,
                   initial, vvars>>

\* lines 458-482: the call, up to the skip return or the spawn
WorkerStartVA ==
    /\ mainPc = "loop"
    /\ idx <= Len(filesToConvert)
    /\ LET inputPath == filesToConvert[idx].fullPath
           stem == OutputStem(inputPath)
       IN
       /\ invoked' = Append(invoked, inputPath)
       /\ mainPc' = "await"
       /\ IF existsSync(stem)
          THEN \* lines 462-465
               /\ log' = writeLog(log, "skip: output exists", "WARNING")
               /\ workerPc' = [workerPc EXCEPT ![idx] = "finished"]
               /\ resolved' = [resolved EXCEPT ![idx] = TRUE]
               /\ outcomes' = [outcomes EXCEPT ![idx] = @ \cup {"skip"}]
               /\ UNCHANGED <<events, alive, spawned, originalTimes>>
          ELSE \* lines 467-482
               /\ originalTimes' = [originalTimes EXCEPT ![idx] =
                                        statSync(tree, <<>>, inputPath)]
               /\ log' = writeLog(log, "conversion started", "INFO")
               /\ workerPc' = [workerPc EXCEPT ![idx] = "awaiting"]
               /\ \E started \in BOOLEAN :
                    IF started
                    THEN /\ alive' = alive \cup {idx}
                         /\ spawned' = Append(spawned, inputPath)
                         /\ UNCHANGED events
                    ELSE /\ events' = [events EXCEPT ![idx] =
                                <<[ev |-> "error"], [ev |-> "close", code |-> SpawnErrno]>>]
                         /\ UNCHANGED <<alive, spawned>>
               /\ UNCHANGED <<resolved, outcomes>>
    /\ UNCHANGED <<platform, targetExists, outputDirExists, tree, outputs,
                   ledgerExists, ledger, MAX_BATCH_SIZE_BYTES, variant, beside,
                   earlier, availableSpace, filesToConvert, idx, probed, ffinfoOf,
                   initial, vvars>>

\* line 482: the transcoder runs and exits, as in the space-aware runner
ChildExitVA(i) == ChildExit(i)

\* lines 540-543: ffmpeg.on('error')
OnErrorVA(i) == OnError(i)

\* lines 484-488 and 526-537: ffmpeg.on('close'), up to the await of the
\* probe (code 0) or to its end (any other code); a failed removal of the
\* output is ignored
OnCloseVA(i) ==
    /\ events[i] # <<>>
    /\ Head(events[i]).ev = "close"
    /\ events' = [events EXCEPT ![i] = Tail(@)]
    /\ LET code == Head(events[i]).code
           stem == OutputStem(filesToConvert[i].fullPath)
       IN
       IF code = 0
       THEN /\ log' = writeLog(log, "ffmpeg finished", "INFO")
            /\ workerPc' = [workerPc EXCEPT ![i] = "probing"]
            /\ probed' = probed + 1
            /\ UNCHANGED <<outputs, resolved, outcomes>>
       ELSE /\ \E unlinked \in BOOLEAN :
                 IF existsSync(stem) /\ unlinked
                 THEN /\ outputs' = RemoveOutput(outputs, stem)
                      /\ log' = writeLog(writeLog(log, "conversion failed", "ERROR"),
                                         "broken output deleted", "INFO")
                 ELSE /\ outputs' = outputs
                      /\ log' = writeLog(log, "conversion failed", "ERROR")
            /\ workerPc' = [workerPc EXCEPT ![i] = "finished"]
            /\ resolved' = [resolved EXCEPT ![i] = TRUE]
            /\ outcomes' = [outcomes EXCEPT ![i] = @ \cup {"nonzero_exit"}]
            /\ UNCHANGED probed
    /\ UNCHANGED <<platform, targetExists, outputDirExists, tree, ledgerExists,
                   ledger, MAX_BATCH_SIZE_BYTES, variant, beside, earlier, mainvars,
                   alive, originalTimes, invoked, spawned, ffinfoOf, initial, vvars>>

\* lines 488-525 and 537: the close handler from the return of
\* runFfprobeJson (lines 397-407) to its end
ProbeDoneVA(i) ==
    /\ workerPc[i] = "probing"
    /\ \E doc \in RunnerProbeDocuments, utimesOk \in BOOLEAN, unlinked \in BOOLEAN :
         LET inputPath == filesToConvert[i].fullPath
             stem == OutputStem(inputPath)
             times == originalTimes[i]
             log1 == IF doc = Null
                     THEN writeLog(log, "ffprobe failed", "ERROR")
                     ELSE log
             validation == validateMp4ByFfprobeVA(doc)
         IN
         /\ ffinfoOf' = [ffinfoOf EXCEPT ![i] = doc]
         /\ unlinked => (IF validation.ok
                         THEN SourcePresent(inputPath)
                         ELSE existsSync(stem))
         /\ utimesOk => existsSync(stem)
         /\ IF validation.ok
            THEN \* lines 491-510
                 LET log2 == writeLog(log1, "validation passed", "INFO")
                     log3 == IF times = Undefined THEN log2
                             ELSE IF utimesOk
                             THEN writeLog(log2, "timestamps copied", "INFO")
                             ELSE writeLog(log2, "timestamps not copied", "WARNING")
                 IN
                 /\ outputs' =
                      IF existsSync(stem)
                      THEN [outputs EXCEPT ![stem] =
                              [(IF times # Undefined /\ utimesOk
                                THEN utimesSync(@, times.atime, times.mtime)
                                ELSE @) EXCEPT !.validated = TRUE]]
                      ELSE outputs
                 /\ IF ~isDel
                    THEN tree' = tree /\ log' = log3
                    ELSE IF unlinked
                    THEN /\ tree' = Unlink(tree, <<>>, inputPath)
                         /\ log' = writeLog(log3, "source deleted", "INFO")
                    ELSE /\ tree' = tree
                         /\ log' = writeLog(log3, "source not deleted", "WARNING")
                 /\ workerPc' = [workerPc EXCEPT ![i] = "finished"]
                 /\ resolved' = [resolved EXCEPT ![i] = TRUE]
                 /\ outcomes' = [outcomes EXCEPT ![i] = @ \cup {"validation_pass"}]
                 /\ UNCHANGED <<ledgerExists, ledger>>
            ELSE \* lines 511-525
                 LET log2 == IF ~existsSync(stem) THEN log1
                             ELSE IF unlinked
                             THEN writeLog(log1, "rejected output deleted", "WARNING")
                             ELSE writeLog(log1, "rejected output not deleted", "WARNING")
                 IN
                 /\ outputs' = IF existsSync(stem) /\ unlinked
                               THEN RemoveOutput(outputs, stem)
                               ELSE outputs
                 /\ outcomes' = [outcomes EXCEPT ![i] = @ \cup {"validation_fail"}]
                 /\ tree' = tree
                 /\ IF CanJoinReasons(validation)
                    THEN /\ ledger' = Append(ledger,
                                        LedgerEntry(inputPath, validation.reasons))
                         /\ ledgerExists' = TRUE
                         /\ log' = writeLog(log2, "recorded for manual review", "WARNING")
                         /\ workerPc' = [workerPc EXCEPT ![i] = "finished"]
                         /\ resolved' = [resolved EXCEPT ![i] = TRUE]
                    ELSE \* line 521 raised: undefined has no join
                         /\ log' = log2
                         /\ workerPc' = [workerPc EXCEPT ![i] = "threw"]
                         /\ UNCHANGED <<ledgerExists, ledger, resolved>>
    /\ UNCHANGED <<platform, targetExists, outputDirExists, MAX_BATCH_SIZE_BYTES,
                   variant, beside, earlier, mainvars, events, alive, originalTimes,
                   invoked, spawned, probed, initial, vvars>>

NextVA ==
    \/ MainStartVA
    \/ MainCollectVA
    \/ WorkerStartVA
    \/ \E i \in 1..Len(filesToConvert) : ChildExitVA(i)
    \/ \E i \in 1..Len(filesToConvert) : OnErrorVA(i)
    \/ \E i \in 1..Len(filesToConvert) : OnCloseVA(i)
    \/ \E i \in 1..Len(filesToConvert) : ProbeDoneVA(i)
    \/ MainResume
    \/ MainSummary

(***************************************************************************)
(* The basic runner, convert.js                                            *)
(***************************************************************************)
\* convert.js lines 43-61: collectFiles(dir)
collectFilesBasic(entries, dirPath) == collectFilesVA(entries, dirPath)

\* lines 100-101: outputPath, the source's path with .mp4 for its extension
OutputBeside(inputPath) == [dir |-> inputPath.dir, stem |-> inputPath.stem]

\* the errors a spawn that fails is reported with
SpawnErrors == {"ENOENT", "EACCES"}

\* lines 209-214: the log header and the target check
MainStartBasic ==
    /\ mainPc = "start"
    /\ IF TargetMissing
       THEN /\ log' = writeLog(LogHeader, "target directory missing", "CRITICAL")
            /\ mainPc' = "returned"
       ELSE /\ log' = LogHeader
            /\ mainPc' = "collect"
    /\ UNCHANGED <<platform, targetExists, outputDirExists, tree, outputs,
                   ledgerExists, ledger, MAX_BATCH_SIZE_BYTES, variant, beside,
                   earlier, availableSpace, filesToConvert, idx, workervars,
                   histvars, vvars>>

\* line 216: collectFiles(TARGET_DIR)
MainCollectBasic ==
    /\ mainPc = "collect"
    /\ filesToConvert' = collectFilesBasic(tree, <<>>)
    /\ NewWorkers(Len(filesToConvert'))
    /\ idx' = 1
    /\ mainPc' = "loop"
    /\ UNCHANGED <<envvars, availableSpace, alive, invoked, spawned, probed,
                   initial, vvars>>

\* lines 99-140: the call, up to the skip or to the await of getDuration
WorkerStartBasic ==
    /\ mainPc = "loop"
    /\ idx <= Len(filesToConvert)
    /\ LET inputPath == filesToConvert[idx].fullPath IN
       /\ invoked' = Append(invoked, inputPath)
       /\ mainPc' = "await"
       /\ IF beside[OutputBeside(inputPath)] # NoFile
          THEN \* lines 124-127
               /\ log' = writeLog(log, "skip: output exists", "WARNING")
               /\ workerPc' = [workerPc EXCEPT ![idx] = "finished"]
               /\ resolved' = [resolved EXCEPT ![idx] = TRUE]
               /\ outcomes' = [outcomes EXCEPT ![idx] = @ \cup {"skip"}]
               /\ UNCHANGED originalTimes
          ELSE \* lines 130-140
               /\ originalTimes' = [originalTimes EXCEPT ![idx] =
                                        statSync(tree, <<>>, inputPath)]
               /\ workerPc' = [workerPc EXCEPT ![idx] = "duration"]
               /\ UNCHANGED <<log, resolved, outcomes>>
    /\ UNCHANGED <<platform, targetExists, outputDirExists, tree, outputs,
                   ledgerExists, ledger, MAX_BATCH_SIZE_BYTES, variant, beside,
                   earlier, availableSpace, filesToConvert, idx, events, alive,
                   spawned, probed, ffinfoOf, initial, vvars>>

\* lines 140-157, with getDuration of lines 68-92: the duration is read
\* from the output of ffmpeg -i, or it is 0; then the transcoder is spawned
DurationDone(i) ==
    /\ workerPc[i] = "duration"
    /\ workerPc' = [workerPc EXCEPT ![i] = "awaiting"]
    /\ \E duration \in {"matched", "unmatched", "none"}, started \in BOOLEAN,
          err \in SpawnErrors :
         LET log1 == IF duration = "unmatched"
                     THEN writeLog(log, "duration not found", "WARNING")
                     ELSE log
             log2 == IF duration = "matched" THEN log1
                     ELSE writeLog(log1, "no duration, no progress bar", "WARNING")
         IN
         /\ log' = writeLog(log2, "conversion started", "INFO")
         /\ IF started
            THEN /\ alive' = alive \cup {i}
                 /\ spawned' = Append(spawned, filesToConvert[i].fullPath)
                 /\ UNCHANGED events
            ELSE /\ events' = [events EXCEPT ![i] =
                        <<[ev |-> "error", code |-> err],
                          [ev |-> "close", code |-> SpawnErrno]>>]
                 /\ UNCHANGED <<alive, spawned>>
    /\ UNCHANGED <<platform, targetExists, outputDirExists, tree, outputs,
                   ledgerExists, ledger, MAX_BATCH_SIZE_BYTES, variant, beside,
                   earlier, mainvars, resolved, originalTimes, invoked, probed,
                   outcomes, ffinfoOf, initial, vvars>>

\* line 157: the transcoder runs with -y and exits: it leaves a whole file
\* on code 0, part of a file or nothing otherwise, and 'close' is emitted
ChildExitBasic(i) ==
    /\ i \in alive
    /\ alive' = alive \ {i}
    /\ \E code \in ExitCodes, wrote \in BOOLEAN :
         LET inputPath == filesToConvert[i].fullPath IN
         /\ code = 0 => wrote
         /\ events' = [events EXCEPT ![i] = Append(@, [ev |-> "close", code |-> code])]
         /\ beside' = IF wrote
                      THEN [beside EXCEPT ![OutputBeside(inputPath)] =
                              OutputFile(inputPath, code = 0)]
                      ELSE beside
    /\ UNCHANGED <<platform, targetExists, outputDirExists, tree, outputs,
                   ledgerExists, ledger, log, MAX_BATCH_SIZE_BYTES, variant,
                   earlier, mainvars, workerPc, resolved, originalTimes, histvars,
                   vvars>>

\* lines 160-186: ffmpeg.on('close')
OnCloseBasic(i) ==
    /\ events[i] # <<>>
    /\ Head(events[i]).ev = "close"
    /\ events' = [events EXCEPT ![i] = Tail(@)]
    /\ LET code == Head(events[i]).code
           key == OutputBeside(filesToConvert[i].fullPath)
           times == originalTimes[i]
       IN
       IF code = 0
       THEN \E utimesOk \in BOOLEAN :
              /\ utimesOk => beside[key] # NoFile
              /\ beside' = IF times # Undefined /\ utimesOk
                           THEN [beside EXCEPT ![key] =
                                   utimesSync(@, times.atime, times.mtime)]
                           ELSE beside
              /\ log' = writeLog(
                           IF times = Undefined THEN log
                           ELSE IF utimesOk
                           THEN writeLog(log, "timestamps copied", "INFO")
                           ELSE writeLog(log, "timestamps not copied", "WARNING"),
                           "converted", "INFO")
              /\ outcomes' = [outcomes EXCEPT ![i] = @ \cup {"converted"}]
       ELSE /\ log' = writeLog(log, "conversion failed", "ERROR")
            /\ outcomes' = [outcomes EXCEPT ![i] = @ \cup {"nonzero_exit"}]
            /\ UNCHANGED beside
    /\ workerPc' = [workerPc EXCEPT ![i] = "finished"]
    /\ resolved' = [resolved EXCEPT ![i] = TRUE]
    /\ UNCHANGED <<platform, targetExists, outputDirExists, tree, outputs,
                   ledgerExists, ledger, MAX_BATCH_SIZE_BYTES, variant, earlier,
                   mainvars, alive, originalTimes, invoked, spawned, probed,
                   ffinfoOf, initial, vvars>>

\* lines 189-197: ffmpeg.on('error')
OnErrorBasic(i) ==
    /\ events[i] # <<>>
    /\ Head(events[i]).ev = "error"
    /\ events' = [events EXCEPT ![i] = Tail(@)]
    /\ log' = IF Head(events[i]).code = "ENOENT"
              THEN writeLog(log, "ffmpeg command not found", "CRITICAL")
              ELSE writeLog(log, "process error", "ERROR")
    /\ resolved' = [resolved EXCEPT ![i] = TRUE]
    /\ outcomes' = [outcomes EXCEPT ![i] = @ \cup {"spawn_failure"}]
    /\ UNCHANGED <<platform, targetExists, outputDirExists, tree, outputs,
                   ledgerExists, ledger, MAX_BATCH_SIZE_BYTES, variant, beside,
                   earlier, mainvars, workerPc, alive, originalTimes, invoked,
                   spawned, probed, ffinfoOf, initial, vvars>>

NextBasic ==
    \/ MainStartBasic
    \/ MainCollectBasic
    \/ WorkerStartBasic
    \/ \E i \in 1..Len(filesToConvert) : DurationDone(i)
    \/ \E i \in 1..Len(filesToConvert) : ChildExitBasic(i)
    \/ \E i \in 1..Len(filesToConvert) : OnErrorBasic(i)
    \/ \E i \in 1..Len(filesToConvert) : OnCloseBasic(i)
    \/ MainResume
    \/ MainSummary

(***************************************************************************)
(* SpecVariants: one run of main() of one of the three runners             *)
(***************************************************************************)
\* a file system that holds at most one .mp4 next to a source
BesideStates ==
    {NothingBeside}
    \cup { [NothingBeside EXCEPT ![p] = Leftover] : p \in BesidePaths }

InitVariants ==
    /\ variant \in {"space", "va", "basic"}
    /\ platform = "win32"
    /\ targetExists \in BOOLEAN
    /\ tree \in (IF targetExists THEN RunnerTrees ELSE {<<>>})
    /\ outputDirExists \in BOOLEAN
    /\ outputs \in (IF outputDirExists /\ variant # "basic"
                    THEN [AllStems -> {NoFile, Leftover}]
                    ELSE {[s \in AllStems |-> NoFile]})
    /\ beside \in (IF variant = "basic" THEN BesideStates ELSE {NothingBeside})
    /\ ledgerExists \in BOOLEAN
    /\ ledger = IF ledgerExists THEN StaleLedger ELSE <<>>
    /\ log = StaleLog
    /\ MAX_BATCH_SIZE_BYTES = MaxBatch
    /\ mainPc = "start"
    /\ RunnerIdle
    /\ ValidateIdle

NextVariants ==
    \/ variant = "space" /\ Next
    \/ variant = "va" /\ NextVA
    \/ variant = "basic" /\ NextBasic

SpecVariants == InitVariants /\ [][NextVariants]_vars

\* one run of main() of the validation-aware runner
InitVA == InitVariants /\ variant = "va"

SpecVA == InitVA /\ [][NextVA]_vars

\* one run of main() of the basic runner
InitBasic == InitVariants /\ variant = "basic"

SpecBasic == InitBasic /\ [][NextBasic]_vars

(***************************************************************************)
(* SpecTwice: the space-aware runner run again on the file system the      *)
(* earlier run left, with no change from outside in between                *)
(***************************************************************************)
MaxRuns == 2

\* the sources an outcome branch has run for in this run
SourcesWith(outcome) ==
    { filesToConvert[i].fullPath :
        i \in { j \in DOMAIN outcomes : outcome \in outcomes[j] } }

\* the process of the run has ended: main() returned or raised, or a close
\* handler raised while main() awaited its promise
ProcessEnded ==
    \/ mainPc \in {"done", "returned", "rejected"}
    \/ mainPc = "await" /\ workerPc[idx] = "threw"

\* line 336: main() is called again, in a new process
Rerun ==
    /\ ProcessEnded
    /\ Len(earlier) < MaxRuns - 1
    /\ earlier' = Append(earlier,
                         [spawned |-> Range(spawned),
                          converted |-> SourcesWith("validation_pass")])
    /\ mainPc' = "start"
    /\ availableSpace' = Undefined
    /\ filesToConvert' = <<>>
    /\ idx' = 1
    /\ workerPc' = <<>>
    /\ events' = <<>>
    /\ resolved' = <<>>
    /\ alive' = {}
    /\ originalTimes' = <<>>
    /\ invoked' = <<>>
    /\ spawned' = <<>>
    /\ probed' = 0
    /\ outcomes' = <<>>
    /\ ffinfoOf' = <<>>
    /\ initial' = [tree |-> tree, outputs |-> outputs, ledger |-> ledger,
                   ledgerExists |-> ledgerExists,
                   outputDirExists |-> outputDirExists]
    /\ UNCHANGED <<platform, targetExists, outputDirExists, tree, outputs,
                   ledgerExists, ledger, log, MAX_BATCH_SIZE_BYTES, variant,
                   beside, vvars>>

NextTwice == Next \/ Rerun

SpecTwice == Init /\ [][NextTwice]_vars

(***************************************************************************)
(* Properties                                                              *)
(***************************************************************************)
SumSizes(list) ==
    LET S[i \in 0..Len(list)] == IF i = 0 THEN 0 ELSE S[i - 1] + list[i].size
    IN  S[Len(list)]

\* every file under a directory, in traversal order, with its full path
RECURSIVE FilesIn(_, _)
FilesIn(entries, dirPath) ==
    IF entries = <<>>
    THEN <<>>
    ELSE LET e == Head(entries)
             rest == FilesIn(Tail(entries), dirPath)
         IN  IF e.kind = "dir"
             THEN FilesIn(e.entries, Append(dirPath, e.name.stem)) \o rest
             ELSE <<[fullPath |-> FullPath(dirPath, e.name), size |-> e.size,
                     mtime |-> e.mtime, atime |-> e.atime]>> \o rest

MatchesExtension(path) == ToLowerCase(path.ext) \in {".ts", ".flv"}

\* the candidates of the tree in traversal order
CandidatesOf(entries) ==
    LET IsMatch(f) == MatchesExtension(f.fullPath)
    IN  SelectSeq(FilesIn(entries, <<>>), IsMatch)

\* the position of the first candidate that does not fit on top of the
\* candidates before it; one past the end when every candidate fits
FirstOverflow(cands) ==
    LET over == { k \in 1..Len(cands) :
                    SumSizes(SubSeq(cands, 1, k - 1)) + cands[k].size
                        > MAX_BATCH_SIZE_BYTES }
    IN  IF over = {} THEN Len(cands) + 1
        ELSE CHOOSE k \in over : \A j \in over : k <= j

HasEntry(entries, level, message) ==
    \E k \in 1..Len(entries) : entries[k] = [level |-> level, msg |-> message]

\* C1: whatever happens to a file, its worker comes to an end without an
\* error escaping it, so a run that has passed its gates can always take a
\* further step until the summary entry is written
C1_WorkerNeverFailsTheBatch ==
    /\ \A i \in DOMAIN workerPc : workerPc[i] # "threw"
    /\ mainPc \in {"collect", "loop", "await"} => ENABLED Next

\* C2: once the close handler is through with a probe that returned null,
\* the worker has finished, the source is still there, the ledger holds one
\* entry naming it, and the output is gone unless its deletion failed
C2_NullProbeIsValidationFailure ==
    \A i \in DOMAIN ffinfoOf :
        ffinfoOf[i] = Null =>
            LET path == filesToConvert[i].fullPath IN
            /\ workerPc[i] = "finished"
            /\ SourcePresent(path)
            /\ Cardinality({ k \in 1..Len(ledger) : ledger[k].path = path }) = 1
            /\ \/ ~existsSync(OutputStem(path))
               \/ HasEntry(log, "WARNING", "rejected output not deleted")

\* C3: both validators answer a document that is null or has no format or
\* no streams with ok = false and a reasons list that holds
\* missing_format_or_streams
C3_MissingMetadataHasReasonCode ==
    (/\ vPc \in {"space", "va"}
     /\ \/ vInfo = Null
        \/ "format" \notin DOMAIN vInfo
        \/ "streams" \notin DOMAIN vInfo)
    => /\ vResult # Thrown
       /\ vResult.ok = FALSE
       /\ "reasons" \in DOMAIN vResult
       /\ \E k \in 1..Len(vResult.reasons) :
              vResult.reasons[k] = "missing_format_or_streams"

\* C4: at most one transcoder is alive, and a worker that has been started
\* finds every earlier worker finished: no event of it pending, no handler
\* of it suspended, its transcoder gone
C4_StrictlySerialized ==
    /\ Cardinality(alive) <= 1
    /\ \A i, j \in DOMAIN workerPc :
          (i < j /\ workerPc[j] # "new") =>
              /\ workerPc[i] = "finished"
              /\ events[i] = <<>>
              /\ i \notin alive

\* C4 witness: the second transcoder runs after the first file went through
\* exit handling, probe, validation and source cleanup
C4_Witness ==
    /\ Len(filesToConvert) = 2
    /\ "validation_pass" \in outcomes[1]
    /\ ~SourcePresent(filesToConvert[1].fullPath)
    /\ alive = {2}

\* C5: the batch collectFiles returns sums to at most the limit and is in
\* non-decreasing order of modification time
C5_BatchBoundedAndSorted ==
    mainPc = "loop" =>
        /\ SumSizes(filesToConvert) <= MAX_BATCH_SIZE_BYTES
        /\ \A i, j \in 1..Len(filesToConvert) :
              i < j => filesToConvert[i].mtime <= filesToConvert[j].mtime

\* C5 witness: a batch that fills the limit exactly, leaves a candidate
\* out, and was met in the opposite order of its modification times
C5_Witness ==
    /\ mainPc = "loop"
    /\ Len(filesToConvert) = 2
    /\ SumSizes(filesToConvert) = MAX_BATCH_SIZE_BYTES
    /\ Len(CandidatesOf(tree)) > 2
    /\ CandidatesOf(tree)[1] = filesToConvert[2]
    /\ filesToConvert[1].mtime < filesToConvert[2].mtime

\* C6: the batch holds exactly the candidates met before the first one
\* that does not fit
C6_StopsAtFirstOverflow ==
    mainPc = "loop" =>
        LET cands == CandidatesOf(tree)
            k == FirstOverflow(cands)
        IN  /\ Len(filesToConvert) = k - 1
            /\ Range(filesToConvert) = { cands[j] : j \in 1..(k - 1) }

\* C6 witness: the overflow happens inside a subdirectory, after a file was
\* accepted, and a later entry of the parent directory would have fitted
C6_Witness ==
    /\ mainPc = "loop"
    /\ LET cands == CandidatesOf(tree)
           k == FirstOverflow(cands)
       IN  /\ 1 < k
           /\ k < Len(cands)
           /\ cands[k].fullPath.dir # <<>>
           /\ \E j \in (k + 1)..Len(cands) :
                 /\ cands[j].fullPath.dir = <<>>
                 /\ SumSizes(filesToConvert) + cands[j].size <= MAX_BATCH_SIZE_BYTES

\* C7: every task is a file of the tree whose extension is .ts or .flv in
\* any case, and a tree without such a file gives the empty batch
C7_OnlyMatchingFiles ==
    mainPc = "loop" =>
        /\ \A t \in Range(filesToConvert) :
              /\ t \in Range(FilesIn(tree, <<>>))
              /\ MatchesExtension(t.fullPath)
        /\ (\A f \in Range(FilesIn(tree, <<>>)) : ~MatchesExtension(f.fullPath))
              => filesToConvert = <<>>

\* C7 witness: an upper-case .FLV is in the batch while a file of another
\* extension of the same tree is not
C7_Witness ==
    /\ mainPc = "loop"
    /\ \E t \in Range(filesToConvert) : t.fullPath.ext = ".FLV"
    /\ \E f \in Range(FilesIn(tree, <<>>)) :
          f.fullPath.ext = ".mp4" /\ f \notin Range(filesToConvert)

\* C8: when the space read for the output directory is below the threshold
\* the run has returned on a CRITICAL entry with nothing collected, no
\* worker invoked, no process launched and every file as it was
C8_LowSpaceAbortsBeforeAnyConversion ==
    (availableSpace.t = "number" /\ availableSpace.v < SPACE_THRESHOLD) =>
        /\ mainPc = "returned"
        /\ log[Len(log)].level = "CRITICAL"
        /\ ~HasEntry(log, "INFO", "batch collected")
        /\ filesToConvert = <<>>
        /\ invoked = <<>>
        /\ spawned = <<>>
        /\ alive = {}
        /\ probed = 0
        /\ tree = initial.tree
        /\ outputs = initial.outputs

\* C8 witness: a run over a tree with candidates returned on a reading
\* that is positive and below the threshold
C8_Witness ==
    /\ mainPc = "returned"
    /\ availableSpace.t = "number"
    /\ availableSpace.v > 0
    /\ availableSpace.v < SPACE_THRESHOLD
    /\ CandidatesOf(tree) # <<>>

\* C9: when the platform is not supported or the query command fails, the
\* run reads the space as zero, logs a CRITICAL entry and returns with no
\* worker invoked
C9_QueryFailureAborts ==
    (/\ mainPc # "start"
     /\ targetExists
     /\ \/ platform # "win32"
        \/ HasEntry(log, "ERROR", "disk space query failed"))
    => /\ mainPc = "returned"
       /\ availableSpace = Num(0)
       /\ log[Len(log)].level = "CRITICAL"
       /\ invoked = <<>>
       /\ spawned = <<>>

\* C10: when the target directory is missing the run has returned on a
\* CRITICAL entry right after the log header: the output directory and the
\* ledger are as they were, no space was read, nothing was collected and no
\* worker was invoked
C10_MissingTargetReturnsEarly ==
    (~targetExists /\ mainPc # "start") =>
        /\ mainPc = "returned"
        /\ log = writeLog(LogHeader, "target directory missing", "CRITICAL")
        /\ outputDirExists = initial.outputDirExists
        /\ ledgerExists = initial.ledgerExists
        /\ ledger = initial.ledger
        /\ availableSpace = Undefined
        /\ filesToConvert = <<>>
        /\ invoked = <<>>

\* C10 witness: the run returned with the output directory still missing
\* and the ledger of an earlier run still in place
C10_Witness ==
    /\ ~targetExists
    /\ mainPc = "returned"
    /\ ~outputDirExists
    /\ ledgerExists
    /\ ledger = StaleLedger

(***************************************************************************)
(* The acceptance predicates as the specification words them, on a probe   *)
(* document that has format and streams                                    *)
(***************************************************************************)
HasFormatAndStreams(doc) ==
    /\ doc.t = "object"
    /\ Get(doc, "format").t = "object"
    /\ Get(doc, "streams").t = "array"

ContainerOk(doc) ==
    LET name == Get(Get(doc, "format"), "format_name")
    IN  IsString(name) /\ Includes(name, "mp4")

\* one single stream has the type, the codec and a tag containing the text
OneStreamHas(doc, type, codec, text) ==
    \E s \in Range(Get(doc, "streams").items) :
        /\ Get(s, "codec_type") = Str(type)
        /\ Get(s, "codec_name") = Str(codec)
        /\ Get(s, "codec_tag_string").t = "string"
        /\ Includes(Get(s, "codec_tag_string"), text)

VideoOk(doc) == OneStreamHas(doc, "video", "h264", "avc1")

AudioOk(doc) == OneStreamHas(doc, "audio", "aac", "mp4a")

StreamCountOk(doc) ==
    LET nb == Get(Get(doc, "format"), "nb_streams")
        n == IF nb.t = "string" THEN StringToNumber(nb.v) ELSE nb
    IN  n.t = "number" /\ n.v >= 2

DurationOk(doc) ==
    LET du == Get(Get(doc, "format"), "duration")
        d == IF du.t = "string" THEN StringToNumber(du.v) ELSE du
    IN  d.t = "number" /\ d.v > 0

MeetsFive(doc) ==
    /\ HasFormatAndStreams(doc)
    /\ ContainerOk(doc) /\ VideoOk(doc) /\ AudioOk(doc)
    /\ StreamCountOk(doc) /\ DurationOk(doc)

\* the log holds an entry with the message
Logged(message) == \E k \in 1..Len(log) : log[k].msg = message

\* C11: when the transcoder of the current task exited 0 and the probe reports container mp4,
\* an h264/avc1 video stream, an aac/mp4a audio stream, two streams and a
\* positive duration, validation passes; the output then carries the
\* timestamps of the collected source and the source is deleted (unless
\* the copy or the deletion failed and was logged as a warning).
C11_GoodOutputIsAcceptedAndReplacesSource ==
    \A i \in DOMAIN ffinfoOf :
        (idx = i /\ MeetsFive(ffinfoOf[i])) =>
            LET task == filesToConvert[i]
                out == outputs[OutputStem(task.fullPath)]
            IN  /\ outcomes[i] = {"validation_pass"}
                /\ ~Logged("timestamps not copied") =>
                       out.mtime = task.mtime /\ out.atime = task.atime
                /\ ~Logged("source not deleted") => ~SourcePresent(task.fullPath)

\* the stable codes of the acceptance predicates a document fails
FailedCodes(doc) ==
    (IF ContainerOk(doc) THEN {} ELSE {"container_not_mp4"})
    \cup (IF VideoOk(doc) THEN {} ELSE {"video_stream_not_h264_avc1"})
    \cup (IF AudioOk(doc) THEN {} ELSE {"audio_stream_not_aac_mp4a"})
    \cup (IF StreamCountOk(doc) THEN {} ELSE {"nb_streams_lt_2"})
    \cup (IF DurationOk(doc) THEN {} ELSE {"duration_invalid"})

\* the ledger entries written for a source
LedgerEntriesOf(path) == { k \in 1..Len(ledger) : ledger[k].path = path }

\* C12: when the transcoder of the current task exited 0 and the probe
\* document has format and streams but fails an acceptance predicate, the
\* worker ends on the
\* validation-fail path: the output is removed (unless the removal failed
\* and was logged), the source is retained, and the ledger holds exactly one
\* entry for the source, with the codes of the failed predicates.
C12_RejectedOutputIsRemovedAndRecorded ==
    \A i \in DOMAIN ffinfoOf :
        (idx = i /\ HasFormatAndStreams(ffinfoOf[i]) /\ ~MeetsFive(ffinfoOf[i])) =>
            LET task == filesToConvert[i]
            IN  /\ workerPc[i] = "finished"
                /\ outcomes[i] = {"validation_fail"}
                /\ ~Logged("rejected output not deleted") =>
                       ~existsSync(OutputStem(task.fullPath))
                /\ SourcePresent(task.fullPath)
                /\ Cardinality(LedgerEntriesOf(task.fullPath)) = 1
                /\ \A k \in LedgerEntriesOf(task.fullPath) :
                       FailedCodes(ffinfoOf[i]) \subseteq Range(ledger[k].reasons)

\* the file at the destination path of a source, in the runner that is run
Destination(inputPath) ==
    IF variant = "basic"
    THEN beside[OutputBeside(inputPath)]
    ELSE outputs[OutputStem(inputPath)]

\* the close event of the current task carried a non-zero exit code of a
\* transcoder that had been launched
ExitedNonZero(i) ==
    /\ idx = i
    /\ "nonzero_exit" \in outcomes[i]
    /\ "spawn_failure" \notin outcomes[i]

\* C13: in each runner, when the transcoder exits with a non-zero code the
\* worker logs an ERROR entry, runs no probe, writes no ledger entry, leaves
\* no file at the destination path, leaves the source in place, and
\* terminates.
C13_NonZeroExitLeavesNothingBehind ==
    \A i \in DOMAIN outcomes :
        ExitedNonZero(i) =>
            LET inputPath == filesToConvert[i].fullPath
            IN  /\ HasEntry(log, "ERROR", "conversion failed")
                /\ ffinfoOf[i] = Undefined
                /\ LedgerEntriesOf(inputPath) = {}
                /\ Destination(inputPath) = NoFile
                /\ SourcePresent(inputPath)
                /\ workerPc[i] = "finished" /\ resolved[i]

\* the log holds an entry of the level
LoggedAt(level) == \E k \in 1..Len(log) : log[k].level = level

\* C14: when the transcoder of the current task cannot be spawned, the
\* worker logs a CRITICAL entry, leaves the source in place and the
\* destination path empty, writes no ledger entry, and resolves the promise
\* the runner awaits, so that the batch goes on.
C14_SpawnFailureIsCriticalAndSkipsTheFile ==
    \A i \in DOMAIN outcomes :
        (idx = i /\ "spawn_failure" \in outcomes[i]) =>
            LET inputPath == filesToConvert[i].fullPath
            IN  /\ LoggedAt("CRITICAL")
                /\ SourcePresent(inputPath)
                /\ Destination(inputPath) = NoFile
                /\ LedgerEntriesOf(inputPath) = {}
                /\ ffinfoOf[i] = Undefined
                /\ resolved[i]

\* C15: when the destination path exists at the start of the current
\* worker invocation, the worker logs a warning and terminates: no
\* transcoder and no probe is launched, the destination file stays, no
\* ledger entry is written, and the source is deleted exactly when
\* deleteSourceOnSuccess (isDel) is set (unless the deletion failed and was
\* logged).
C15_SkipIfExistsDeletesSourcePerFlag ==
    \A i \in DOMAIN outcomes :
        (idx = i /\ "skip" \in outcomes[i]) =>
            LET inputPath == filesToConvert[i].fullPath
            IN  /\ HasEntry(log, "WARNING", "skip: output exists")
                /\ workerPc[i] = "finished" /\ resolved[i]
                /\ outcomes[i] = {"skip"}
                /\ \A k \in 1..Len(spawned) : spawned[k] # inputPath
                /\ ffinfoOf[i] = Undefined
                /\ Destination(inputPath) # NoFile
                /\ LedgerEntriesOf(inputPath) = {}
                /\ ~Logged("source not deleted") =>
                       (isDel <=> ~SourcePresent(inputPath))

\* C16: a run that follows earlier runs on the same tree launches the
\* transcoder for no source an earlier run converted (transcoded and
\* validated): such a source is gone, or its destination is present and
\* the worker takes the skip path.
C16_SecondRunConvertsNothingAgain ==
    \A r \in 1..Len(earlier) :
        /\ Range(spawned) \cap earlier[r].converted = {}
        /\ \A i \in DOMAIN outcomes :
               filesToConvert[i].fullPath \in earlier[r].converted =>
                   outcomes[i] \subseteq {"skip"}

\* a second run meets a source the first run converted but could not
\* delete, and skips it
C16_Witness ==
    /\ Len(earlier) = 1
    /\ \E i \in DOMAIN outcomes :
           /\ filesToConvert[i].fullPath \in earlier[1].converted
           /\ outcomes[i] = {"skip"}
    /\ mainPc = "done"

\* |a - b|
AbsDiff(a, b) == IF a >= b THEN a - b ELSE b - a

\* C17: in the space-aware validator the size predicate holds (no
\* size_invalid reason) exactly when the output size differs from the
\* original size by at most MAX_DIFF_SIZE_BYTES, and a failed size
\* predicate makes the validation fail.
C17_SizeOkIsBoundedDifference ==
    (/\ vPc = "space"
     /\ vResult # Thrown
     /\ "reasons" \in DOMAIN vResult
     /\ vResult.details.size.t = "number"
     /\ "size" \in DOMAIN Get(vInfo, "format")) =>
        LET outputSize == vResult.details.size.v
            size_ok == "size_invalid" \notin Range(vResult.reasons)
        IN  /\ size_ok <=> (AbsDiff(outputSize, vOrigin) <= MAX_DIFF_SIZE_BYTES)
            /\ ~size_ok => ~vResult.ok

\* the sequence holds no value twice
NoDuplicates(seq) == Cardinality(Range(seq)) = Len(seq)

\* C18: for every probe document that has format and streams, both
\* validators return a result whose ok is the conjunction of the
\* acceptance predicates (with the size predicate in the space-aware one)
\* and whose reasons hold exactly one code for each failed predicate.
C18_OkIsConjunctionAndReasonsMatch ==
    (vPc \in {"space", "va"} /\ HasFormatAndStreams(vInfo)) =>
        /\ vResult # Thrown
        /\ "reasons" \in DOMAIN vResult
        /\ LET codes == Range(vResult.reasons)
               size_ok == "size_invalid" \notin codes
           IN  /\ NoDuplicates(vResult.reasons)
               /\ codes \ {"size_invalid"} = FailedCodes(vInfo)
               /\ vPc = "va" => size_ok
               /\ vResult.ok <=> (MeetsFive(vInfo) /\ size_ok)

\* C19: for one task the handling code of two different outcomes (skip,
\* spawn failure, non-zero exit, validation pass, validation fail) never
\* both runs, and a task the runner has moved past has reached one of them.
C19_ExactlyOneOutcome ==
    \A i \in DOMAIN outcomes :
        /\ Cardinality(outcomes[i]) <= 1
        /\ idx > i => Cardinality(outcomes[i]) = 1

\* the message of the log entry k places before the last one
LastLogged(k) == IF Len(log) > k THEN log[Len(log) - k].msg ELSE ""

\* the current worker invocation has terminated on the validation-pass or
\* on the validation-fail path
TerminatedAfterValidation(i) ==
    /\ idx = i
    /\ workerPc[i] = "finished"
    /\ outcomes[i] \cap {"validation_pass", "validation_fail"} # {}

\* C20 as stated: after validation fail the output is absent and the source
\* present; after validation pass the source is absent and the output
\* present is the validated one.
C20_NeverSourceWithInvalidOutput ==
    \A i \in DOMAIN outcomes :
        TerminatedAfterValidation(i) =>
            LET inputPath == filesToConvert[i].fullPath
                out == outputs[OutputStem(inputPath)]
            IN  /\ "validation_fail" \in outcomes[i] =>
                       out = NoFile /\ SourcePresent(inputPath)
                /\ ("validation_pass" \in outcomes[i] /\ isDel) =>
                       /\ ~SourcePresent(inputPath)
                       /\ out # NoFile /\ out.validated /\ out.from = inputPath

\* C20 as amended: the same, unless the removal of the rejected output or
\* the deletion of the source failed, which the worker logs as a warning
\* before it terminates; the file it could not remove then stays.
C20_NeverSourceWithInvalidOutputUnlessUnlinkFails ==
    \A i \in DOMAIN outcomes :
        TerminatedAfterValidation(i) =>
            LET inputPath == filesToConvert[i].fullPath
                out == outputs[OutputStem(inputPath)]
            IN  /\ "validation_fail" \in outcomes[i] =>
                       /\ SourcePresent(inputPath)
                       /\ IF LastLogged(1) = "rejected output not deleted"
                          THEN out # NoFile /\ ~out.validated
                          ELSE out = NoFile
                /\ ("validation_pass" \in outcomes[i] /\ isDel) =>
                       /\ out # NoFile /\ out.validated /\ out.from = inputPath
                       /\ IF LastLogged(0) = "source not deleted"
                          THEN SourcePresent(inputPath)
                          ELSE ~SourcePresent(inputPath)

\* a worker has terminated after validation fail with the rejected output
\* removed and the source kept
C20_Witness ==
    \E i \in DOMAIN outcomes :
        /\ TerminatedAfterValidation(i)
        /\ outcomes[i] = {"validation_fail"}
        /\ LastLogged(1) = "rejected output deleted"
        /\ outputs[OutputStem(filesToConvert[i].fullPath)] = NoFile
        /\ SourcePresent(filesToConvert[i].fullPath)

\* the modification time main() found the file at a path with
MtimeAtStart(path) ==
    LET files == FilesIn(initial.tree, <<>>)
        k == CHOOSE j \in 1..Len(files) : files[j].fullPath = path
    IN  files[k].mtime

\* the worker was called for the tasks of the batch from the first on, one
\* call a task, in the order of the batch, which is by modification time
InvokedInBatchOrder ==
    /\ Len(invoked) <= Len(filesToConvert)
    /\ \A k \in 1..Len(invoked) : invoked[k] = filesToConvert[k].fullPath
    /\ \A j, k \in 1..Len(invoked) :
          /\ j # k => invoked[j] # invoked[k]
          /\ j < k => MtimeAtStart(invoked[j]) <= MtimeAtStart(invoked[k])

\* the summary entries of the log give the number of tasks of the batch
SummaryCountsBatch ==
    \A k \in 1..Len(log), n \in 0..4 :
        log[k].msg = SummaryText(n) => n = Len(filesToConvert)

\* C21: the worker is called for the tasks of the batch only, in the order
\* of the batch, once each; when the process of the run has ended it has
\* been called for every task, and the summary entry gives the number of
\* tasks
C21_EveryTaskInvokedOnceInOrder ==
    /\ InvokedInBatchOrder
    /\ SummaryCountsBatch
    /\ ProcessEnded => Len(invoked) = Len(filesToConvert)

\* the close handler of the current task is through with a probe document
\* that validateMp4ByFfprobe accepts
PassedValidation(i) ==
    /\ idx = i
    /\ mainPc = "await"
    /\ ffinfoOf[i] # Undefined
    /\ LET validation == validateMp4ByFfprobe(ffinfoOf[i], filesToConvert[i].size)
       IN  validation # Thrown /\ validation.ok

\* the entry the log ends with, k entries from its end
EntryFromEnd(k) == log[Len(log) - k]

\* C22: on the validation-pass path the worker terminates normally with the
\* validated output kept and no ledger entry for the source, whether or not
\* the timestamps could be copied and the source deleted.  When the copy
\* fails the output keeps the timestamps it was written with, the failure
\* is logged at WARNING and the source is deleted all the same; when the
\* deletion fails the source stays and the failure is logged at WARNING.
C22_CleanupFailuresAreWarnings ==
    \A i \in DOMAIN ffinfoOf :
        PassedValidation(i) =>
            LET task == filesToConvert[i]
                out == outputs[OutputStem(task.fullPath)]
                copy == EntryFromEnd(1)
                deletion == EntryFromEnd(0)
            IN  /\ workerPc[i] = "finished"
                /\ resolved[i]
                /\ outcomes[i] = {"validation_pass"}
                /\ out # NoFile /\ out.validated /\ out.from = task.fullPath
                /\ LedgerEntriesOf(task.fullPath) = {}
                /\ \/ /\ copy = [level |-> "INFO", msg |-> "timestamps copied"]
                      /\ out.mtime = task.mtime /\ out.atime = task.atime
                   \/ /\ copy = [level |-> "WARNING", msg |-> "timestamps not copied"]
                      /\ out.mtime = Now /\ out.atime = Now
                /\ isDel =>
                   \/ /\ deletion = [level |-> "INFO", msg |-> "source deleted"]
                      /\ ~SourcePresent(task.fullPath)
                   \/ /\ deletion = [level |-> "WARNING", msg |-> "source not deleted"]
                      /\ SourcePresent(task.fullPath)

\* the timestamps could not be copied onto a validated output; the worker
\* has deleted the source and terminated with the output in place
C22_Witness ==
    \E i \in DOMAIN ffinfoOf :
        /\ PassedValidation(i)
        /\ workerPc[i] = "finished" /\ resolved[i]
        /\ EntryFromEnd(1).msg = "timestamps not copied"
        /\ EntryFromEnd(0).msg = "source deleted"
        /\ ~SourcePresent(filesToConvert[i].fullPath)
        /\ outputs[OutputStem(filesToConvert[i].fullPath)].validated

\* the files TARGET_DIR held when main() was started
FilesAtStart == Range(FilesIn(initial.tree, <<>>))

\* C23: a file of TARGET_DIR that the run has deleted has, at its
\* destination path in OUTPUT_DIR, the output that was transcoded from that
\* very file and has passed validation
C23_NoSourceContentLost ==
    \A f \in FilesAtStart :
        ~SourcePresent(f.fullPath) =>
            LET out == outputs[OutputStem(f.fullPath)]
            IN  /\ out # NoFile
                /\ out.from = f.fullPath
                /\ out.validated

\* C24: a call of either validator returns a result, the result has a list
\* of reasons, and ok is true exactly when the list is empty
C24_ValidateIsTotalAndConsistent ==
    vPc \in {"space", "va"} =>
        /\ vResult # Thrown
        /\ "ok" \in DOMAIN vResult
        /\ "reasons" \in DOMAIN vResult
        /\ vResult.ok <=> vResult.reasons = <<>>

====
